---- MODULE Spec2Model ----
(***************************************************************************)
(* BackendRecorder (src/backend/recorder.py): a microphone recorder with   *)
(* silence detection.  Caller threads run start(), stop() and              *)
(* stop_when_silent(); the audio subsystem runs _callback() on its own     *)
(* thread for every chunk of an active stream.  Every statement of the     *)
(* class is one step, labelled with its source line.                       *)
(* Time is counted in tenths of a second (0.8 s = 8, 0.5 s = 5).           *)
(***************************************************************************)
EXTENDS Integers, Sequences, FiniteSets, TLC

\* ------------------------------------------------------------- bounds
MaxTime == 8         \* the monotonic clock returns values from 0 to MaxTime
MaxStarts == 2       \* start() calls that get past the guard (events, streams)
MaxChunks == 2       \* chunks the audio subsystem delivers in a run
MaxRequests == 5     \* /chat requests of a run
MaxWavChunks == 2    \* chunks in the buffer that is encoded
MaxWavFrames == 1    \* frames of one such chunk

\* -------------------------------------------------- program constants
RmsThreshold == 500  \* rms > 500 is voice
SilenceGap == 8      \* now - _last_voice_time >= 0.8
MinDuration == 5     \* now - _start_time >= 0.5
DefaultMaxDuration == 50   \* stop_when_silent(max_duration = 5.0)
ShortDuration == 3   \* a caller's max_duration = 0.3

CHAT_WINDOW_TURNS == 4     \* main.py: last N user+assistant turns
DefaultSamplerate == 16000 \* BackendRecorder(samplerate = 16000, ...)
DefaultChannels == 1       \* BackendRecorder(..., channels = 1)
SampWidth == 2             \* wav_file.setsampwidth(2)

None == -1           \* a timestamp that is None
NoHandle == 0        \* a stream or event reference that is None
Free == 0            \* the lock with no holder

CallerIds == {1, 2}
StreamIds == 1..MaxStarts
EventIds == 1..MaxStarts

\* the sample data of the chunks the device may deliver (int16 samples):
\* a chunk whose rms is exactly the threshold, and voice
ChunkData == {<<500, 500>>, <<1000, 0, 1000>>}
\* max_duration arguments: a short wait and the default 5.0 s
MaxDurations == {ShortDuration, DefaultMaxDuration}
\* the /chat requests
ReqIds == 1..MaxRequests
\* constructor arguments and int16 samples of the encoded buffers
Samplerates == {8000, DefaultSamplerate}
ChannelCounts == {1, 2}
WavSamples == {-32768, 500}

VARIABLES
    callers,        \* the caller threads of this run
    now,            \* the latest value time.monotonic() has returned
    frames,         \* self._frames: the chunks buffered, in order
    stream,         \* self._stream: a stream id, or NoHandle
    silence_event,  \* self._silence_event: an event id, or NoHandle
    start_time,     \* self._start_time, or None
    last_voice_time,\* self._last_voice_time, or None
    lock,           \* self._lock: Free, or the thread that holds it
    streams,        \* the device's streams: "none", "open", "active", "closed"
    events,         \* the threading.Events: "none", "clear", "set"
    nstarts,        \* start() calls that got past the guard
    delivered,      \* chunks delivered by the device so far
    pc,             \* where every caller thread is
    op,             \* the call a caller thread is in, or made last
    res,            \* how that call ended ("none" while it runs)
    audio,          \* the chunks the call returned
    waitev,         \* stop_when_silent: the event waited on
    deadline,       \* stop_when_silent: when the wait times out
    woke,           \* stop_when_silent: how the wait ended
    window,         \* history of a stop_when_silent call: was the signal
                    \* set when it was called (preset), has the callback
                    \* of a quiet chunk run since (quiet)
    cbpc,           \* where the callback of every stream is
    cbdata,         \* the callback's indata
    cbnow,          \* the callback's local now
    cberr,          \* the exception that ended a stream's callback
    phase,          \* history: how the last call that got past its guard
                    \* ended: "fresh", "recording", "stopped",
                    \* "startfailed", "stopfailed"
    nappended,      \* history: chunks appended since the last start()
    sent,           \* history: the chunks delivered since the last start()
    \* the chat history of src/backend/main.py
    chat_history,   \* _chat_history: the messages kept, oldest first
    rpc,            \* where every /chat request is
    history_snapshot, \* chat_endpoint's history_snapshot of every request
    completed,      \* history: the requests whose turn was appended, in order
    history_response, \* the messages of the last GET /history response
    \* the waveform encoding of _to_wav_bytes
    samplerate,     \* self.samplerate
    channels,       \* self.channels
    wav_frames,     \* the chunks buffered: each a sequence of frames of
                    \* `channels` int16 samples
    wav_bytes,      \* what _to_wav_bytes returned
    wav_read,       \* what wave.open(..., "rb") reads from it
    wavpc           \* "buffered", "encoded", "decoded"

vars == <<callers, now, frames, stream, silence_event, start_time,
          last_voice_time, lock, streams, events, nstarts, delivered,
          pc, op, res, audio, waitev, deadline, woke, window,
          cbpc, cbdata, cbnow, cberr, phase, nappended, sent,
          chat_history, rpc, history_snapshot, completed, history_response,
          samplerate, channels, wav_frames, wav_bytes, wav_read, wavpc>>

recorderVars == <<frames, stream, silence_event, start_time, last_voice_time>>
deviceVars == <<streams, events, nstarts>>
callerVars == <<pc, op, res, audio, waitev, deadline, woke, window>>
cbVars == <<cbpc, cbdata, cbnow, cberr, delivered>>
historyVars == <<phase, nappended, sent>>
chatVars == <<chat_history, rpc, history_snapshot, completed,
              history_response>>
wavVars == <<samplerate, channels, wav_frames, wav_bytes, wav_read, wavpc>>

\* ------------------------------------------------------------ helpers
\* a chunk is its sample data and the number it was delivered under
NoChunk == [id |-> 0, data |-> <<>>]

CbThread(s) == Cardinality(CallerIds) + s

SumSq(samples) ==
    LET F[i \in 0..Len(samples)] ==
            IF i = 0 THEN 0 ELSE F[i - 1] + samples[i] * samples[i]
    IN F[Len(samples)]

\* history: the rms of chunk c is not above / above 500, on the squares
QuietChunk(c) == SumSq(c.data) <= 250000 * Len(c.data)
LoudChunk(c) == SumSq(c.data) > 250000 * Len(c.data)

\* the threshold test with < for >
IsVoiced_inverted(samples) ==
    SumSq(samples) < RmsThreshold * RmsThreshold * Len(samples)

\* rms = sqrt(mean(x ** 2)); rms > 500 compared on the squares
IsVoiced(samples) ==
    SumSq(samples) > RmsThreshold * RmsThreshold * Len(samples)

\* the two conditions joined by "or"
SilenceReached_either(t, last, start) ==
    t - last >= SilenceGap \/ t - start >= MinDuration

\* the silence gap tested with > for >=
SilenceReached_strict(t, last, start) ==
    t - last > SilenceGap /\ t - start >= MinDuration

\* now - last >= 0.8 and now - start >= 0.5
SilenceReached(t, last, start) ==
    t - last >= SilenceGap /\ t - start >= MinDuration

\* the guard with the sense of .active inverted
is_recording_inverted ==
    stream # NoHandle /\ streams[stream] # "active"

\* self._stream is not None and self._stream.active
is_recording ==
    stream # NoHandle /\ streams[stream] = "active"

\* a caller thread that is in no call enters the call `name`
Begin(t, name) ==
    /\ t \in callers
    /\ pc[t] = "idle"
    /\ op' = [op EXCEPT ![t] = name]
    /\ audio' = [audio EXCEPT ![t] = <<>>]
    /\ woke' = [woke EXCEPT ![t] = "none"]
    /\ waitev' = [waitev EXCEPT ![t] = NoHandle]
    /\ deadline' = [deadline EXCEPT ![t] = None]
    /\ window' = [window EXCEPT ![t] =
                     [preset |-> /\ name = "stop_when_silent"
                                 /\ silence_event # NoHandle
                                 /\ events[silence_event] = "set",
                      quiet |-> /\ name = "stop_when_silent"
                                /\ \E s \in StreamIds :
                                      cbpc[s] # "idle" /\ QuietChunk(cbdata[s])]]

Raise(t, err) ==
    /\ pc' = [pc EXCEPT ![t] = "idle"]
    /\ res' = [res EXCEPT ![t] = err]

Goto(t, label) ==
    /\ pc' = [pc EXCEPT ![t] = label]
    /\ res' = [res EXCEPT ![t] = "none"]

\* the next statement of a call under way
Step(t, from, to) ==
    /\ pc[t] = from
    /\ pc' = [pc EXCEPT ![t] = to]
    /\ UNCHANGED <<op, res, audio, waitev, deadline, woke, window>>

\* the call under way ends: it returns (res = "ok") or raises
Return(t, from, outcome) ==
    /\ pc[t] = from
    /\ pc' = [pc EXCEPT ![t] = "idle"]
    /\ res' = [res EXCEPT ![t] = outcome]
    /\ UNCHANGED <<op, waitev, deadline, woke, window>>

\* --------------------------------------------------------------- init
InitShared ==
    /\ now = 0
    /\ frames = <<>>
    /\ stream = NoHandle
    /\ silence_event = NoHandle
    /\ start_time = None
    /\ last_voice_time = None
    /\ lock = Free
    /\ streams = [s \in StreamIds |-> "none"]
    /\ events = [e \in EventIds |-> "none"]
    /\ nstarts = 0
    /\ delivered = 0
    /\ pc = [t \in CallerIds |-> "idle"]
    /\ op = [t \in CallerIds |-> "none"]
    /\ res = [t \in CallerIds |-> "none"]
    /\ audio = [t \in CallerIds |-> <<>>]
    /\ waitev = [t \in CallerIds |-> NoHandle]
    /\ deadline = [t \in CallerIds |-> None]
    /\ woke = [t \in CallerIds |-> "none"]
    /\ window = [t \in CallerIds |-> [preset |-> FALSE, quiet |-> FALSE]]
    /\ cbpc = [s \in StreamIds |-> "idle"]
    /\ cbdata = [s \in StreamIds |-> NoChunk]
    /\ cbnow = [s \in StreamIds |-> None]
    /\ cberr = [s \in StreamIds |-> "none"]
    /\ phase = "fresh"
    /\ nappended = 0
    /\ sent = <<>>

\* main.py line 29: _chat_history = [], and no request made yet
ChatInit ==
    /\ chat_history = <<>>
    /\ rpc = [r \in ReqIds |-> "new"]
    /\ history_snapshot = [r \in ReqIds |-> <<>>]
    /\ completed = <<>>
    /\ history_response = <<>>

NoWav == [nchannels |-> 0, framerate |-> 0, byterate |-> 0, blockalign |-> 0,
          bits |-> 0, datasize |-> 0, data |-> <<>>]
NoRead == [nchannels |-> 0, framerate |-> 0, sampwidth |-> 0, nframes |-> 0]

\* line 15-17: BackendRecorder() with the default arguments; nothing encoded
WavIdle ==
    /\ samplerate = DefaultSamplerate
    /\ channels = DefaultChannels
    /\ wav_frames = <<>>
    /\ wav_bytes = NoWav
    /\ wav_read = NoRead
    /\ wavpc = "none"

\* one caller: the Recorder's calls are serialized
Init == InitShared /\ callers = {1} /\ ChatInit /\ WavIdle

\* two callers whose calls overlap
InitConcurrent == InitShared /\ callers = CallerIds /\ ChatInit /\ WavIdle

\* -------------------------------------------------------------- clock
\* a wall clock, which may be set back between two reads
Monotonic_wallclock(k) ==
    /\ k \in 0..MaxTime
    /\ now' = k

\* time.monotonic() returns k: no less than any value it returned before
Monotonic(k) ==
    /\ k \in now..MaxTime
    /\ now' = k

\* ------------------------------------------------------------ start()
\* line 50-51: if self.is_recording: raise RecorderError(...)
StartGuard(t) ==
    /\ Begin(t, "start")
    /\ IF is_recording
       THEN /\ Raise(t, "AlreadyRecording")
            /\ UNCHANGED <<nstarts, nappended, sent>>
       ELSE /\ nstarts < MaxStarts
            /\ nstarts' = nstarts + 1
            /\ nappended' = 0
            /\ sent' = <<>>
            /\ Goto(t, "L52")
    /\ UNCHANGED <<callers, chatVars, wavVars, now, recorderVars, lock, streams, events, cbVars,
                   phase>>

\* line 52: self._frames = []   (not under the lock)
Start52(t) ==
    /\ Step(t, "L52", "L53")
    /\ frames' = <<>>
    /\ UNCHANGED <<callers, chatVars, wavVars, now, stream, silence_event, start_time,
                   last_voice_time, lock, deviceVars, cbVars, phase, nappended, sent>>

\* an event id not used yet
FreshEvent == CHOOSE e \in EventIds : events[e] = "none"

\* start() that re-arms one Event made once instead of making a new one
Start53_shared_event(t) ==
    /\ Step(t, "L53", "L54")
    /\ events' = [events EXCEPT ![1] = IF @ = "none" THEN "clear" ELSE @]
    /\ silence_event' = 1
    /\ UNCHANGED <<callers, chatVars, wavVars, now, frames, stream,
                   start_time, last_voice_time, lock, streams, nstarts,
                   cbVars, historyVars>>

\* line 53: self._silence_event = threading.Event()
Start53(t) ==
    /\ Step(t, "L53", "L54")
    /\ events' = [events EXCEPT ![FreshEvent] = "clear"]
    /\ silence_event' = FreshEvent
    /\ UNCHANGED <<callers, chatVars, wavVars, now, frames, stream, start_time, last_voice_time,
                   lock, streams, nstarts, cbVars, phase, nappended, sent>>

\* line 54: self._start_time = time.monotonic()
Start54(t) ==
    /\ Step(t, "L54", "L55")
    /\ \E k \in 0..MaxTime : Monotonic(k) /\ start_time' = k
    /\ UNCHANGED <<callers, chatVars, wavVars, frames, stream, silence_event, last_voice_time,
                   lock, deviceVars, cbVars, phase, nappended, sent>>

\* start() without line 55
Start55_skipped(t) ==
    /\ Step(t, "L55", "L56")
    /\ UNCHANGED <<callers, chatVars, wavVars, now, recorderVars, lock,
                   deviceVars, cbVars, historyVars>>

\* line 55: self._last_voice_time = self._start_time
Start55(t) ==
    /\ Step(t, "L55", "L56")
    /\ last_voice_time' = start_time
    /\ UNCHANGED <<callers, chatVars, wavVars, now, frames, stream, silence_event, start_time,
                   lock, deviceVars, cbVars, phase, nappended, sent>>

\* a stream id the device has not handed out yet
FreshStream == CHOOSE s \in StreamIds : streams[s] = "none"

\* line 56-61: self._stream = sd.InputStream(...): the device opens a stream
Start56(t) ==
    /\ Step(t, "L56", "L62")
    /\ streams' = [streams EXCEPT ![FreshStream] = "open"]
    /\ stream' = FreshStream
    /\ UNCHANGED <<callers, chatVars, wavVars, now, frames, silence_event, start_time,
                   last_voice_time, lock, events, nstarts, cbVars, phase, nappended, sent>>

\* line 56-61: sd.InputStream(...) raises (no input device): no stream is
\* opened and the assignment does not happen
Start56Fail(t) ==
    /\ Return(t, "L56", "DeviceFailure")
    /\ phase' = "startfailed"
    /\ UNCHANGED <<nappended, sent, callers, chatVars, wavVars, now, recorderVars, lock, deviceVars, cbVars,
                   audio>>

\* line 62: self._stream.start(): the callback starts to run.  Starting a
\* stream that is not open and stopped raises.
Start62(t) ==
    /\ pc[t] = "L62"
    /\ IF stream = NoHandle
       THEN /\ Return(t, "L62", "AttributeError")
            /\ phase' = "startfailed"
            /\ UNCHANGED streams
       ELSE IF streams[stream] = "open"
       THEN /\ Return(t, "L62", "ok")
            /\ phase' = "recording"
            /\ streams' = [streams EXCEPT ![stream] = "active"]
       ELSE /\ Return(t, "L62", "DeviceFailure")
            /\ phase' = "startfailed"
            /\ UNCHANGED streams
    /\ UNCHANGED <<callers, chatVars, wavVars, now, recorderVars, lock, events, nstarts, cbVars,
                   audio, nappended, sent>>

\* line 62: self._stream.start() raises: the stream stays open and inactive
Start62Fail(t) ==
    /\ Return(t, "L62", "DeviceFailure")
    /\ phase' = "startfailed"
    /\ UNCHANGED <<nappended, sent, callers, chatVars, wavVars, now, recorderVars, lock, deviceVars, cbVars,
                   audio>>

\* ------------------------------------------------------------- stop()
\* line 65-66: if not self._stream: raise RecorderError(...)
Check65(t) ==
    /\ IF stream = NoHandle
       THEN Raise(t, "NotRecording")
       ELSE Goto(t, "L67")
    /\ UNCHANGED <<callers, chatVars, wavVars, now, recorderVars, lock, deviceVars, cbVars,
                   phase, nappended, sent>>

\* stop() is called
StopGuard(t) ==
    /\ Begin(t, "stop")
    /\ Check65(t)

\* stop() without lines 67-68: the fields are cleared while the stream runs
Stop67_stream_left_running(t) ==
    /\ Step(t, "L67", "L69")
    /\ UNCHANGED <<callers, chatVars, wavVars, now, recorderVars, lock,
                   deviceVars, cbVars, historyVars>>

\* line 67: self._stream.stop(): returns once the callback under way has
\* ended, with the stream inactive
Stop67(t) ==
    /\ pc[t] = "L67"
    /\ IF stream = NoHandle
       THEN /\ Return(t, "L67", "AttributeError")
            /\ phase' = "stopfailed"
            /\ UNCHANGED streams
       ELSE /\ cbpc[stream] = "idle"
            /\ streams' = [streams EXCEPT ![stream] =
                              IF @ = "active" THEN "open" ELSE @]
            /\ Step(t, "L67", "L68")
            /\ UNCHANGED phase
    /\ UNCHANGED <<callers, chatVars, wavVars, now, recorderVars, lock, events, nstarts, cbVars,
                   audio, nappended, sent>>

\* line 67: self._stream.stop() raises: the stream stays as it is
Stop67Fail(t) ==
    /\ Return(t, "L67", "DeviceFailure")
    /\ phase' = "stopfailed"
    /\ UNCHANGED <<nappended, sent, callers, chatVars, wavVars, now, recorderVars, lock, deviceVars, cbVars,
                   audio>>

\* line 68: self._stream.close()
Stop68(t) ==
    /\ pc[t] = "L68"
    /\ IF stream = NoHandle
       THEN /\ Return(t, "L68", "AttributeError")
            /\ phase' = "stopfailed"
            /\ UNCHANGED streams
       ELSE /\ cbpc[stream] = "idle"
            /\ streams' = [streams EXCEPT ![stream] = "closed"]
            /\ Step(t, "L68", "L69")
            /\ UNCHANGED phase
    /\ UNCHANGED <<callers, chatVars, wavVars, now, recorderVars, lock, events, nstarts, cbVars,
                   audio, nappended, sent>>

\* line 68: self._stream.close() raises: the stream stays as it is
Stop68Fail(t) ==
    /\ Return(t, "L68", "DeviceFailure")
    /\ phase' = "stopfailed"
    /\ UNCHANGED <<nappended, sent, callers, chatVars, wavVars, now, recorderVars, lock, deviceVars, cbVars,
                   audio>>

\* stop() that drops the silence signal where it should drop the stream
Stop69_event_first(t) ==
    /\ Step(t, "L69", "L70")
    /\ silence_event' = NoHandle
    /\ UNCHANGED <<callers, chatVars, wavVars, now, frames, stream,
                   start_time, last_voice_time, lock, deviceVars, cbVars,
                   historyVars>>

\* stop() that forgets to drop the stream handle
Stop69_keeps_handle(t) ==
    /\ Step(t, "L69", "L70")
    /\ UNCHANGED <<callers, chatVars, wavVars, now, recorderVars, lock, deviceVars, cbVars,
                   phase, nappended, sent>>

\* line 69: self._stream = None
Stop69(t) ==
    /\ Step(t, "L69", "L70")
    /\ stream' = NoHandle
    /\ UNCHANGED <<callers, chatVars, wavVars, now, frames, silence_event, start_time,
                   last_voice_time, lock, deviceVars, cbVars, phase, nappended, sent>>

\* line 70: self._silence_event = None
Stop70(t) ==
    /\ Step(t, "L70", "L71")
    /\ silence_event' = NoHandle
    /\ UNCHANGED <<callers, chatVars, wavVars, now, frames, stream, start_time,
                   last_voice_time, lock, deviceVars, cbVars, phase, nappended, sent>>

\* line 71: self._start_time = None
Stop71(t) ==
    /\ Step(t, "L71", "L72")
    /\ start_time' = None
    /\ UNCHANGED <<callers, chatVars, wavVars, now, frames, stream, silence_event,
                   last_voice_time, lock, deviceVars, cbVars, phase, nappended, sent>>

\* line 72: self._last_voice_time = None
Stop72(t) ==
    /\ Step(t, "L72", "L74")
    /\ last_voice_time' = None
    /\ UNCHANGED <<callers, chatVars, wavVars, now, frames, stream, silence_event, start_time,
                   lock, deviceVars, cbVars, phase, nappended, sent>>

\* line 74: with self._lock:
Stop74(t) ==
    /\ Step(t, "L74", "L75")
    /\ lock = Free
    /\ lock' = t
    /\ UNCHANGED <<callers, chatVars, wavVars, now, recorderVars, deviceVars, cbVars, phase, nappended, sent>>

\* the emptiness test inverted: raises when chunks are buffered
Stop75_inverted(t) ==
    /\ pc[t] = "L75"
    /\ IF frames # <<>>
       THEN /\ Return(t, "L75", "NoAudioCaptured")
            /\ lock' = Free
            /\ phase' = "stopped"
       ELSE /\ Step(t, "L75", "L77")
            /\ UNCHANGED <<lock, phase>>
    /\ UNCHANGED <<callers, chatVars, wavVars, now, recorderVars, deviceVars, cbVars, audio,
                   nappended, sent>>

\* line 75-76: if not self._frames: raise RecorderError("No audio captured"),
\* and the with statement releases the lock
Stop75(t) ==
    /\ pc[t] = "L75"
    /\ IF frames = <<>>
       THEN /\ Return(t, "L75", "NoAudioCaptured")
            /\ lock' = Free
            /\ phase' = "stopped"
       ELSE /\ Step(t, "L75", "L77")
            /\ UNCHANGED <<lock, phase>>
    /\ UNCHANGED <<callers, chatVars, wavVars, now, recorderVars, deviceVars, cbVars, audio,
                   nappended, sent>>

\* line 77: audio_data = np.concatenate(self._frames, axis=0), which raises
\* ValueError on an empty list
Stop77(t) ==
    /\ pc[t] = "L77"
    /\ IF frames = <<>>
       THEN /\ Return(t, "L77", "ValueError")
            /\ lock' = Free
            /\ phase' = "stopped"
            /\ UNCHANGED audio
       ELSE /\ pc' = [pc EXCEPT ![t] = "L78"]
            /\ audio' = [audio EXCEPT ![t] = frames]
            /\ UNCHANGED <<op, res, waitev, deadline, woke, window, lock,
                           phase>>
    /\ UNCHANGED <<callers, chatVars, wavVars, now, recorderVars, deviceVars, cbVars,
                   nappended, sent>>

\* stop() that returns without clearing the buffer
Stop78_keeps_frames(t) ==
    /\ Return(t, "L78", "ok")
    /\ lock' = Free
    /\ phase' = "stopped"
    /\ UNCHANGED <<nappended, sent, callers, chatVars, wavVars, now, recorderVars, deviceVars,
                   cbVars, audio>>

\* line 78-80: self._frames = [], the lock is released, and
\* return self._to_wav_bytes(audio_data)
Stop78(t) ==
    /\ Return(t, "L78", "ok")
    /\ frames' = <<>>
    /\ lock' = Free
    /\ phase' = "stopped"
    /\ UNCHANGED <<nappended, sent, callers, chatVars, wavVars, now, stream, silence_event, start_time,
                   last_voice_time, deviceVars, cbVars, audio>>

\* ------------------------------------------------ stop_when_silent()
\* line 83-84: if not self._stream: raise RecorderError(...)
SwsGuard(t) ==
    /\ Begin(t, "stop_when_silent")
    /\ IF stream = NoHandle
       THEN Raise(t, "NotRecording")
       ELSE Goto(t, "L85")
    /\ UNCHANGED <<callers, chatVars, wavVars, now, recorderVars, lock, deviceVars, cbVars,
                   phase, nappended, sent>>

\* line 85-86: if self._silence_event is None: raise RecorderError(...)
Sws85(t) ==
    /\ pc[t] = "L85"
    /\ IF silence_event = NoHandle
       THEN Return(t, "L85", "SilenceDetectorUnavailable")
       ELSE Step(t, "L85", "L87")
    /\ UNCHANGED <<callers, chatVars, wavVars, now, recorderVars, lock, deviceVars, cbVars,
                   audio, phase, nappended, sent>>

\* the wait made inside "with self._lock:"
Sws87_under_lock(t) ==
    /\ pc[t] = "L87"
    /\ silence_event # NoHandle
    /\ lock = Free
    /\ lock' = t
    /\ \E d \in MaxDurations, k \in 0..MaxTime :
          /\ Monotonic(k)
          /\ pc' = [pc EXCEPT ![t] = "W87"]
          /\ waitev' = [waitev EXCEPT ![t] = silence_event]
          /\ deadline' = [deadline EXCEPT ![t] = k + d]
          /\ UNCHANGED <<op, res, audio, woke, window>>
    /\ UNCHANGED <<callers, chatVars, wavVars, recorderVars, deviceVars, cbVars, phase,
                   nappended, sent>>

\* line 87: self._silence_event.wait(timeout=max_duration): the wait begins
\* at time k on the event the field refers to now; max_duration is the
\* call's argument
Sws87(t) ==
    /\ pc[t] = "L87"
    /\ IF silence_event = NoHandle
       THEN /\ Return(t, "L87", "AttributeError")
            /\ UNCHANGED <<audio, now>>
       ELSE \E d \in MaxDurations, k \in 0..MaxTime :
               /\ Monotonic(k)
               /\ pc' = [pc EXCEPT ![t] = "W87"]
               /\ waitev' = [waitev EXCEPT ![t] = silence_event]
               /\ deadline' = [deadline EXCEPT ![t] = k + d]
               /\ UNCHANGED <<op, res, audio, woke, window>>
    /\ UNCHANGED <<callers, chatVars, wavVars, recorderVars, lock, deviceVars, cbVars, phase, nappended, sent>>

\* line 87: Event.wait returns: the flag is set, or the flag is not set and
\* the timeout has elapsed (the clock has reached the deadline)
SwsWake(t) ==
    /\ pc[t] = "W87"
    /\ IF events[waitev[t]] = "set"
       THEN /\ woke' = [woke EXCEPT ![t] = "signal"]
            /\ UNCHANGED now
       ELSE /\ woke' = [woke EXCEPT ![t] = "timeout"]
            /\ \E k \in 0..MaxTime : Monotonic(k) /\ k >= deadline[t]
    /\ pc' = [pc EXCEPT ![t] = "L65"]
    /\ waitev' = [waitev EXCEPT ![t] = NoHandle]
    /\ deadline' = [deadline EXCEPT ![t] = None]
    /\ UNCHANGED <<op, res, audio, window>>
    /\ UNCHANGED <<callers, chatVars, wavVars, recorderVars, lock, deviceVars, cbVars, phase, nappended, sent>>

\* line 88: return self.stop()
Sws88(t) ==
    /\ pc[t] = "L65"
    /\ UNCHANGED <<op, audio, woke, waitev, deadline, window>>
    /\ Check65(t)

\* -------------------------------------------------------- _callback()
\* the callback of stream s ends; an exception aborts the stream
CbDone(s, err) ==
    /\ cbpc' = [cbpc EXCEPT ![s] = "idle"]
    /\ cbdata' = [cbdata EXCEPT ![s] = NoChunk]
    /\ cbnow' = [cbnow EXCEPT ![s] = None]
    /\ cberr' = [cberr EXCEPT ![s] = IF err = "none" THEN @ ELSE err]
    /\ streams' = [streams EXCEPT ![s] =
                      IF err # "none" /\ @ = "active" THEN "open" ELSE @]

CbStep(s, from, to) ==
    /\ cbpc[s] = from
    /\ cbpc' = [cbpc EXCEPT ![s] = to]
    /\ UNCHANGED <<cbdata, cbnow, cberr, streams>>

\* line 25: the audio subsystem calls _callback(indata, ...) on an active
\* stream
CbCall(s) ==
    /\ streams[s] = "active"
    /\ cbpc[s] = "idle"
    /\ delivered < MaxChunks
    /\ delivered' = delivered + 1
    /\ \E d \in ChunkData :
          cbdata' = [cbdata EXCEPT ![s] = [id |-> delivered + 1, data |-> d]]
    /\ cbpc' = [cbpc EXCEPT ![s] = "L28"]
    /\ window' = [t \in CallerIds |->
                     [window[t] EXCEPT !.quiet =
                         @ \/ (/\ pc[t] # "idle"
                               /\ op[t] = "stop_when_silent"
                               /\ QuietChunk(cbdata'[s]))]]
    /\ sent' = Append(sent, cbdata'[s])
    /\ UNCHANGED <<callers, chatVars, wavVars, now, recorderVars, lock, deviceVars, pc, op, res,
                   audio, waitev, deadline, woke, cbnow, cberr, phase,
                   nappended>>

\* line 28: with self._lock:
Cb28(s) ==
    /\ CbStep(s, "L28", "L29")
    /\ lock = Free
    /\ lock' = CbThread(s)
    /\ UNCHANGED <<callers, chatVars, wavVars, now, recorderVars, events, nstarts, callerVars,
                   delivered, phase, nappended, sent>>

\* line 29: self._frames.append(indata.copy()), and the lock is released
Cb29(s) ==
    /\ CbStep(s, "L29", "L33")
    /\ frames' = Append(frames, cbdata[s])
    /\ lock' = Free
    /\ nappended' = nappended + 1
    /\ UNCHANGED <<callers, chatVars, wavVars, now, stream, silence_event, start_time,
                   last_voice_time, events, nstarts, callerVars, delivered,
                   phase, sent>>

\* line 33-34: if self._silence_event is None: return
Cb33(s) ==
    /\ cbpc[s] = "L33"
    /\ IF silence_event = NoHandle
       THEN CbDone(s, "none")
       ELSE CbStep(s, "L33", "L35")
    /\ UNCHANGED <<callers, chatVars, wavVars, now, recorderVars, lock, events, nstarts,
                   callerVars, delivered, phase, nappended, sent>>

\* line 35-37: now = time.monotonic(); rms = ...; if rms > 500:
Cb35(s) ==
    /\ cbpc[s] = "L35"
    /\ \E k \in 0..MaxTime :
          Monotonic(k) /\ cbnow' = [cbnow EXCEPT ![s] = k]
    /\ cbpc' = [cbpc EXCEPT ![s] =
                   IF IsVoiced(cbdata[s].data) THEN "L38" ELSE "L40"]
    /\ UNCHANGED <<callers, chatVars, wavVars, recorderVars, lock, deviceVars, callerVars,
                   cbdata, cberr, delivered, phase, nappended, sent>>

\* line 38-39: self._last_voice_time = now; return
Cb38(s) ==
    /\ cbpc[s] = "L38"
    /\ last_voice_time' = cbnow[s]
    /\ CbDone(s, "none")
    /\ UNCHANGED <<callers, chatVars, wavVars, now, frames, stream, silence_event, start_time,
                   lock, events, nstarts, callerVars, delivered, phase, nappended, sent>>

\* line 40-41: if self._last_voice_time is None or self._start_time is None:
\* return
Cb40(s) ==
    /\ cbpc[s] = "L40"
    /\ IF last_voice_time = None \/ start_time = None
       THEN CbDone(s, "none")
       ELSE CbStep(s, "L40", "L42")
    /\ UNCHANGED <<callers, chatVars, wavVars, now, recorderVars, lock, events, nstarts,
                   callerVars, delivered, phase, nappended, sent>>

\* line 42: if now - self._last_voice_time >= 0.8 and
\* now - self._start_time >= 0.5: (the fields are read again; now - None
\* raises TypeError)
Cb42(s) ==
    /\ cbpc[s] = "L42"
    /\ IF last_voice_time = None
          \/ (cbnow[s] - last_voice_time >= SilenceGap /\ start_time = None)
       THEN CbDone(s, "TypeError")
       ELSE IF SilenceReached(cbnow[s], last_voice_time, start_time)
       THEN CbStep(s, "L42", "L43")
       ELSE CbDone(s, "none")
    /\ UNCHANGED <<callers, chatVars, wavVars, now, recorderVars, lock, events, nstarts,
                   callerVars, delivered, phase, nappended, sent>>

\* line 43: self._silence_event.set() (the field is read again; None.set()
\* raises AttributeError)
Cb43(s) ==
    /\ cbpc[s] = "L43"
    /\ IF silence_event = NoHandle
       THEN CbDone(s, "AttributeError") /\ UNCHANGED events
       ELSE /\ CbDone(s, "none")
            /\ events' = [events EXCEPT ![silence_event] = "set"]
    /\ UNCHANGED <<callers, chatVars, wavVars, now, recorderVars, lock, nstarts, callerVars,
                   delivered, phase, nappended, sent>>

\* ------------------------------------------------------ specification
StartCall(t) ==
    \/ StartGuard(t) \/ Start52(t) \/ Start53(t) \/ Start54(t) \/ Start55(t)
    \/ Start56(t) \/ Start62(t)

StopCall(t) ==
    \/ StopGuard(t) \/ Stop67(t) \/ Stop68(t) \/ Stop69(t) \/ Stop70(t)
    \/ Stop71(t) \/ Stop72(t) \/ Stop74(t) \/ Stop75(t) \/ Stop77(t)
    \/ Stop78(t)

SwsCall(t) ==
    \/ SwsGuard(t) \/ Sws85(t) \/ Sws87(t) \/ SwsWake(t) \/ Sws88(t)

Callback(s) ==
    \/ CbCall(s) \/ Cb28(s) \/ Cb29(s) \/ Cb33(s) \/ Cb35(s) \/ Cb38(s)
    \/ Cb40(s) \/ Cb42(s) \/ Cb43(s)

\* the device raises in a call of the stream
DeviceFails(t) ==
    \/ Start56Fail(t) \/ Start62Fail(t) \/ Stop67Fail(t) \/ Stop68Fail(t)

Next ==
    \/ \E t \in CallerIds : StartCall(t) \/ StopCall(t) \/ SwsCall(t)
    \/ \E s \in StreamIds : Callback(s)

FaultyNext ==
    \/ Next
    \/ \E t \in CallerIds : DeviceFails(t)

StartNext ==
    \E t \in CallerIds : StartCall(t)

\* serialized calls (one caller thread), the callback thread, and a device
\* that raises no error
Spec == Init /\ [][Next]_vars

\* a call under way and a callback under way keep running
Proceed(t) ==
    pc[t] # "idle" /\ (StartCall(t) \/ StopCall(t) \/ SwsCall(t))
CbProceed(s) ==
    cbpc[s] # "idle" /\ Callback(s)
LiveSpec ==
    /\ Spec
    /\ \A t \in CallerIds : WF_vars(Proceed(t))
    /\ \A s \in StreamIds : WF_vars(CbProceed(s))

\* serialized calls, the callback thread, and a device whose calls may raise
FaultySpec == Init /\ [][FaultyNext]_vars

\* two caller threads whose start() calls overlap
ConcurrentSpec == InitConcurrent /\ [][StartNext]_vars

\* ------------------------------------------------- main.py: /chat history
\* every variable of the recorder
recorderAll == <<callers, now, recorderVars, lock, deviceVars, callerVars,
                 cbVars, historyVars>>

\* what request r appends: its message, and the reply to it
UserMessage(r) == [role |-> "user", content |-> <<"message", r>>]
AssistantMessage(r) == [role |-> "assistant", content |-> <<"reply", r>>]

\* the window counted in turns where it is counted in messages
TrimWindow_turns(h) ==
    IF Len(h) > CHAT_WINDOW_TURNS
    THEN SubSeq(h, Len(h) - CHAT_WINDOW_TURNS + 1, Len(h))
    ELSE h

\* line 139-141: max_messages = CHAT_WINDOW_TURNS * 2;
\* if len(_chat_history) > max_messages: del _chat_history[:-max_messages]
TrimWindow(h) ==
    IF Len(h) > CHAT_WINDOW_TURNS * 2
    THEN SubSeq(h, Len(h) - CHAT_WINDOW_TURNS * 2 + 1, Len(h))
    ELSE h

\* line 118-129: chat_endpoint up to "await query_poe(...)".  An empty
\* message is answered 400; otherwise the history is copied under
\* _chat_lock.  A coroutine runs without interruption between two awaits,
\* and taking the free lock does not suspend it.
Chat118(r) ==
    /\ rpc[r] = "new"
    /\ \E empty \in BOOLEAN :
          IF empty
          THEN /\ rpc' = [rpc EXCEPT ![r] = "400"]
               /\ UNCHANGED history_snapshot
          ELSE /\ rpc' = [rpc EXCEPT ![r] = "L129"]
               /\ history_snapshot' =
                     [history_snapshot EXCEPT ![r] = chat_history]
    /\ UNCHANGED <<chat_history, completed, history_response, recorderAll,
                   wavVars>>

\* line 129-145: query_poe returns the reply, and under _chat_lock the
\* message and the reply are appended and the window is trimmed; or
\* query_poe raises UpstreamServiceError and the request is answered 502
Chat129(r) ==
    /\ rpc[r] = "L129"
    /\ history_snapshot' = [history_snapshot EXCEPT ![r] = <<>>]
    /\ \E replied \in BOOLEAN :
          IF replied
          THEN /\ chat_history' =
                     TrimWindow(Append(Append(chat_history, UserMessage(r)),
                                       AssistantMessage(r)))
               /\ completed' = Append(completed, r)
               /\ rpc' = [rpc EXCEPT ![r] = "200"]
          ELSE /\ rpc' = [rpc EXCEPT ![r] = "502"]
               /\ UNCHANGED <<chat_history, completed>>
    /\ UNCHANGED <<history_response, recorderAll, wavVars>>

IsChatMessage(item) == item.role \in {"user", "assistant"}

\* line 97-110: history_endpoint copies the history under _chat_lock and
\* returns its well-formed messages
History98 ==
    /\ history_response' = SelectSeq(chat_history, IsChatMessage)
    /\ UNCHANGED <<chat_history, rpc, history_snapshot, completed,
                   recorderAll, wavVars>>

ChatNext ==
    \/ \E r \in ReqIds : Chat118(r) \/ Chat129(r)
    \/ History98

\* concurrent /chat and /history requests on the event loop
ChatSpec == Init /\ [][ChatNext]_vars

\* ------------------------------------------- _to_wav_bytes: the encoding
\* the frames (one sample per channel) and chunks that may be buffered
WavFrameSet(c) == [1..c -> WavSamples]
WavChunkSet(c) == UNION {[1..n -> WavFrameSet(c)] : n \in 0..MaxWavFrames}

\* a recorder constructed with some sample rate and channel count, whose
\* buffer holds some chunks when stop() reaches line 77
WavInit ==
    /\ InitShared /\ callers = {1} /\ ChatInit
    /\ samplerate \in Samplerates
    /\ channels \in ChannelCounts
    /\ wav_frames \in UNION {[1..n -> WavChunkSet(channels)] :
                              n \in 1..MaxWavChunks}
    /\ wav_bytes = NoWav
    /\ wav_read = NoRead
    /\ wavpc = "buffered"

\* line 77: np.concatenate(self._frames, axis=0)
Concatenate(chunks) ==
    LET F[i \in 0..Len(chunks)] ==
            IF i = 0 THEN <<>> ELSE F[i - 1] \o chunks[i]
    IN F[Len(chunks)]

\* the two bytes of an int16, little-endian two's complement
Int16Bytes(x) ==
    LET u == (x + 65536) % 65536
    IN <<u % 256, u \div 256>>

\* line 96: audio_data.tobytes(): frame by frame, channel by channel
ToBytes(audio_data, c) ==
    [i \in 1..(Len(audio_data) * c * 2) |->
        LET k == (i - 1) \div 2
        IN Int16Bytes(audio_data[(k \div c) + 1][(k % c) + 1])[((i - 1) % 2) + 1]]

\* the writer with setsampwidth(1)
to_wav_bytes_width1(audio_data) ==
    LET data == ToBytes(audio_data, channels)
    IN [nchannels |-> channels, framerate |-> samplerate,
        byterate |-> channels * samplerate, blockalign |-> channels,
        bits |-> 8, datasize |-> Len(data), data |-> data]

\* line 90-97: the RIFF/WAVE bytes wave.open(..., "wb") writes: the format
\* chunk, and the data chunk with its size in bytes
to_wav_bytes(audio_data) ==
    LET data == ToBytes(audio_data, channels)
    IN [nchannels |-> channels, framerate |-> samplerate,
        byterate |-> channels * samplerate * SampWidth,
        blockalign |-> channels * SampWidth,
        bits |-> SampWidth * 8, datasize |-> Len(data), data |-> data]

\* what wave.open(..., "rb") reads back: the sample width from the bits per
\* sample, the frame count from the size of the data chunk
WavOpenRead(w) ==
    LET sampwidth == (w.bits + 7) \div 8
    IN [nchannels |-> w.nchannels, framerate |-> w.framerate,
        sampwidth |-> sampwidth,
        nframes |-> w.datasize \div (w.nchannels * sampwidth)]

\* line 77-80: stop() concatenates the buffer and encodes it
WavEncode ==
    /\ wavpc = "buffered"
    /\ wav_bytes' = to_wav_bytes(Concatenate(wav_frames))
    /\ wavpc' = "encoded"
    /\ UNCHANGED <<samplerate, channels, wav_frames, wav_read, recorderAll,
                   chatVars>>

\* the bytes returned are decoded
WavDecode ==
    /\ wavpc = "encoded"
    /\ wav_read' = WavOpenRead(wav_bytes)
    /\ wavpc' = "decoded"
    /\ UNCHANGED <<samplerate, channels, wav_frames, wav_bytes, recorderAll,
                   chatVars>>

WavNext == WavEncode \/ WavDecode

WavSpec == WavInit /\ [][WavNext]_vars

\* ============================================================ properties
Quiescent == \A t \in callers : pc[t] = "idle"
OpenStreams == {s \in StreamIds : streams[s] \in {"open", "active"}}
\* stop() of t has got past line 67 and has not returned
Clearing(t) ==
    pc[t] \in {"L68", "L69", "L70", "L71", "L72", "L74", "L75", "L77", "L78"}
\* the last stop() has completed and no start() has been called since
Stopped ==
    phase = "stopped" /\ \A t \in CallerIds : op[t] # "start"
\* a stop() or stop_when_silent() call of t has ended and had got past the
\* NotRecording guard
StopEnded(t) ==
    /\ pc[t] = "idle"
    /\ op[t] \in {"stop", "stop_when_silent"}
    /\ res[t] \notin {"none", "NotRecording"}

\* C1: a start() issued while the session is Recording (a start() succeeded
\* and no stop()/stop_when_silent() was called since) raises AlreadyRecording
\* at once, opens no stream and leaves the frame buffer, the silence signal,
\* startedAt and lastVoiceAt of the running recording as they are.
C1_StartWhileRecordingRejected ==
    [][\A t \in CallerIds :
          (phase = "recording" /\ StartGuard(t)) =>
             /\ pc'[t] = "idle"
             /\ res'[t] = "AlreadyRecording"
             /\ UNCHANGED <<frames, silence_event, start_time,
                            last_voice_time, stream, streams, events>>]_vars

C1_Witness ==
    /\ phase = "recording"
    /\ pc[1] = "idle" /\ op[1] = "start" /\ res[1] = "AlreadyRecording"
    /\ frames # <<>>
    /\ OpenStreams = {stream}

\* C2: stop() and stop_when_silent() called while the session is Idle (never
\* started, or stopped since the last start) raise NotRecording without
\* waiting and leave every field of the session as it is.
C2_StopWhileIdleRejected ==
    [][\A t \in CallerIds :
          (phase \in {"fresh", "stopped"} /\ (StopGuard(t) \/ SwsGuard(t))) =>
             /\ pc'[t] = "idle"
             /\ res'[t] = "NotRecording"
             /\ UNCHANGED <<recorderVars, streams, events, lock, phase>>
             /\ stream = NoHandle]_vars

C2_Witness ==
    /\ phase = "stopped"
    /\ pc[1] = "idle" /\ op[1] = "stop_when_silent"
    /\ res[1] = "NotRecording"
    /\ woke[1] = "none"

\* C3: a stop() that ends with no chunk appended since the last start()
\* raises NoAudioCaptured; with at least one chunk appended it returns the
\* audio without error, and the audio returned is never empty.
C3_NoAudioIffNoChunk ==
    \A t \in CallerIds :
       StopEnded(t) =>
          /\ nappended = 0 => res[t] = "NoAudioCaptured"
          /\ nappended > 0 => res[t] = "ok"
          /\ res[t] = "ok" => audio[t] # <<>>

C3_Witness ==
    /\ pc[1] = "idle" /\ op[1] = "stop" /\ res[1] = "ok"
    /\ nappended = 1 /\ Len(audio[1]) = 1
    /\ nstarts = 2

\* C4: at most one input stream is open (opened and not yet closed) at any
\* time, and at most one of two concurrent start() calls succeeds.
C4_AtMostOneStreamOpen ==
    /\ Cardinality(OpenStreams) <= 1
    /\ ~(\A t \in CallerIds : pc[t] = "idle" /\ op[t] = "start" /\ res[t] = "ok")

\* C5: after a stop() or stop_when_silent() that got past the NotRecording
\* guard has returned or raised, the session holds no stream handle and no
\* opened stream is left unclosed.
C5_StreamReleasedOnEveryPath ==
    \A t \in CallerIds :
       StopEnded(t) => (stream = NoHandle /\ OpenStreams = {})

\* C6: the silence signal is set only by the callback of a quiet chunk
\* (rms <= 500) whose time t has t - lastVoiceAt >= 0.8 s and
\* t - startedAt >= 0.5 s, both timestamps being set; the callback of a
\* voiced chunk (rms > 500) sets lastVoiceAt to its time and never sets the
\* signal, and the callback of a quiet chunk never writes lastVoiceAt.
C6_SilenceOnlyAfterQuietGap ==
    [][/\ \A e \in EventIds :
             (events[e] # "set" /\ events'[e] = "set") =>
                \E s \in StreamIds :
                   /\ cbpc[s] = "L43" /\ cbpc'[s] = "idle"
                   /\ e = silence_event
                   /\ QuietChunk(cbdata[s])
                   /\ last_voice_time # None /\ start_time # None
                   /\ cbnow[s] - last_voice_time >= 8
                   /\ cbnow[s] - start_time >= 5
       /\ \A s \in StreamIds :
             (cbpc[s] # "idle" /\ cbpc'[s] # cbpc[s]) =>
                /\ LoudChunk(cbdata[s]) =>
                      /\ events' = events
                      /\ cbpc'[s] \notin {"L40", "L42", "L43"}
                      /\ cbpc[s] = "L38" => last_voice_time' = cbnow[s]
                /\ QuietChunk(cbdata[s]) =>
                      last_voice_time' = last_voice_time]_vars

C6_Witness ==
    /\ silence_event # NoHandle /\ events[silence_event] = "set"
    /\ Len(frames) = 2
    /\ LoudChunk(frames[1]) /\ QuietChunk(frames[2])

\* C7: once the callback of a quiet chunk finds, at line 42, its time at
\* least 0.8 s after lastVoiceAt and 0.5 s after startedAt, the silence
\* signal is set; and a stop_when_silent pending on a set signal returns the
\* captured audio, woken by the signal and not by its timeout.
C7_SilenceEndsPendingWait ==
    /\ \A s \in StreamIds :
          (/\ cbpc[s] = "L42" /\ QuietChunk(cbdata[s])
           /\ last_voice_time # None /\ start_time # None
           /\ cbnow[s] - last_voice_time >= 8 /\ cbnow[s] - start_time >= 5)
          ~> (silence_event # NoHandle /\ events[silence_event] = "set")
    /\ \A t \in CallerIds :
          (pc[t] = "W87" /\ events[waitev[t]] = "set")
          ~> (/\ pc[t] = "idle" /\ op[t] = "stop_when_silent"
              /\ res[t] = "ok" /\ woke[t] = "signal" /\ audio[t] # <<>>)

C7_Witness ==
    /\ pc[1] = "idle" /\ op[1] = "stop_when_silent"
    /\ res[1] = "ok" /\ woke[1] = "signal"
    /\ \E i \in 1..Len(audio[1]) : QuietChunk(audio[1][i])
    /\ now < DefaultMaxDuration

\* C8 as stated: if every chunk whose callback runs during a
\* stop_when_silent call is voiced, the signal is not set, the wait ends only
\* after max_duration, and the call returns the audio as a normal result.
C8_VoicedWindowTimesOut ==
    [][\A t \in CallerIds :
          /\ (SwsWake(t) /\ ~window[t].quiet) =>
                /\ events[waitev[t]] # "set"
                /\ woke'[t] = "timeout"
                /\ now' >= deadline[t]
          /\ (/\ pc[t] # "idle" /\ pc'[t] = "idle"
              /\ op[t] = "stop_when_silent" /\ woke[t] = "timeout"
              /\ ~window[t].quiet) =>
                (nappended > 0 => res'[t] = "ok" /\ audio'[t] = frames)]_vars

\* C8 amended: if the signal is not already set when stop_when_silent is
\* called and every chunk whose callback runs during the call is voiced, the
\* signal is not set, the wait ends only after max_duration, and the call
\* returns the audio captured as a normal result when at least one chunk
\* was captured (NoAudioCaptured when none was).
C8_VoicedWindowTimesOutUnlessPreset ==
    [][\A t \in CallerIds :
          /\ (SwsWake(t) /\ ~window[t].quiet /\ ~window[t].preset) =>
                /\ events[waitev[t]] # "set"
                /\ woke'[t] = "timeout"
                /\ now' >= deadline[t]
          /\ (/\ pc[t] # "idle" /\ pc'[t] = "idle"
              /\ op[t] = "stop_when_silent" /\ woke[t] = "timeout"
              /\ ~window[t].quiet /\ ~window[t].preset) =>
                /\ nappended > 0 => res'[t] = "ok" /\ audio'[t] = frames
                /\ nappended = 0 => res'[t] = "NoAudioCaptured"]_vars

C8_Witness ==
    /\ pc[1] = "idle" /\ op[1] = "stop_when_silent"
    /\ res[1] = "ok" /\ woke[1] = "timeout"
    /\ ~window[1].quiet /\ ~window[1].preset
    /\ Len(audio[1]) = 2
    /\ \A i \in 1..2 : LoudChunk(audio[1][i])

\* C9: a caller waiting in stop_when_silent does not hold the frame-buffer
\* lock; a caller holds it only in the drain-and-clear of stop() and the
\* callback only in its append; and while a caller waits, the callback under
\* way can take its next step.
C9_NoLockAcrossWait ==
    /\ \A t \in CallerIds :
          /\ pc[t] = "W87" => lock # t
          /\ lock = t => pc[t] \in {"L75", "L77", "L78"}
          /\ pc[t] = "W87" =>
                \A s \in StreamIds : cbpc[s] # "idle" => ENABLED Callback(s)
    /\ \A s \in StreamIds : lock = CbThread(s) => cbpc[s] = "L29"

C9_Witness ==
    /\ pc[1] = "W87"
    /\ \E s \in StreamIds : cbpc[s] = "L29" /\ lock = CbThread(s)

\* C10: whenever no call is under way, startedAt, lastVoiceAt and the
\* silence signal are all set if the session is Recording and all unset if
\* it is Idle, also after a stop() that raised NoAudioCaptured and after a
\* start() that the device failed.
C10_TimestampsSetIffRecording ==
    Quiescent =>
       IF phase = "recording"
       THEN start_time # None /\ last_voice_time # None
            /\ silence_event # NoHandle
       ELSE start_time = None /\ last_voice_time = None
            /\ silence_event = NoHandle

\* C11: when a stop() or stop_when_silent() that got past the NotRecording
\* guard has ended, the frame buffer is empty, and if it returned audio the
\* audio is exactly the sequence of chunks the device delivered since the
\* most recent start(), each once and in arrival order.
C11_AudioIsDeliveredChunks ==
    \A t \in CallerIds :
       StopEnded(t) =>
          /\ frames = <<>>
          /\ res[t] = "ok" => audio[t] = sent

C11_Witness ==
    /\ StopEnded(1) /\ res[1] = "ok"
    /\ nstarts = 2 /\ delivered = 2
    /\ Len(audio[1]) = 1 /\ audio[1][1].id = 2

\* C12: decoding the bytes stop() returns for a buffer of chunks gives a
\* frame count equal to the sum of the chunks' frame counts, the session's
\* channel count, the session's sample rate and a sample width of 2 bytes.
C12_WavRoundTrip ==
    wavpc = "decoded" =>
       /\ wav_read.nframes =
             LET N[i \in 0..Len(wav_frames)] ==
                     IF i = 0 THEN 0 ELSE N[i - 1] + Len(wav_frames[i])
             IN N[Len(wav_frames)]
       /\ wav_read.nchannels = channels
       /\ wav_read.framerate = samplerate
       /\ wav_read.sampwidth = 2

C12_Witness ==
    /\ wavpc = "decoded"
    /\ channels = 2 /\ samplerate = 8000
    /\ Len(wav_frames) = 2
    /\ Len(wav_frames[1]) = 1 /\ Len(wav_frames[2]) = 1
    /\ wav_bytes.data = <<0, 128, 244, 1, 244, 1, 0, 128>>
    /\ wav_read.nframes = 2

C14_ReusableAcrossCycles ==
    [][\A t \in CallerIds :
          /\ (pc[t] # "idle" /\ StopEnded(t)') =>
                /\ res'[t] \in {"ok", "NoAudioCaptured"}
                /\ stream' = NoHandle /\ ~is_recording'
                /\ OpenStreams' = {}
          /\ (phase = "stopped" /\ StartGuard(t)) => pc'[t] = "L52"
          /\ (phase = "stopped" /\ pc[t] = "L62" /\ pc'[t] = "idle") =>
                /\ res'[t] = "ok" /\ is_recording'
                /\ frames' = <<>>
                /\ start_time' = now' /\ last_voice_time' = now'
                /\ silence_event' # NoHandle
                /\ events[silence_event'] = "clear"
                /\ events'[silence_event'] = "clear"]_vars

C14_Witness ==
    /\ pc[1] = "idle" /\ op[1] = "start" /\ res[1] = "ok"
    /\ nstarts = 2 /\ delivered = 1 /\ nappended = 0
    /\ is_recording /\ frames = <<>>
    /\ start_time = now /\ last_voice_time = now
    /\ events[silence_event] = "clear"

\* C15: a signal that is set is never cleared, and the session keeps
\* referring to it until stop() drops it at line 70; a signal is set only
\* while it is the signal of the recording under way; a stop_when_silent()
\* called when the signal is already set ends its wait by the signal
\* without the clock advancing; and the signal a start() arms is a new one
\* that is not set.
C15_SignalIsOneShot ==
    [][/\ \A e \in EventIds :
             /\ events[e] = "set" => events'[e] = "set"
             /\ (events[e] # "set" /\ events'[e] = "set") =>
                   e = silence_event /\ phase = "recording"
       /\ (/\ silence_event # NoHandle
           /\ events[silence_event] = "set"
           /\ silence_event' # silence_event) =>
             /\ silence_event' = NoHandle
             /\ \E t \in CallerIds : pc[t] = "L70" /\ pc'[t] = "L71"
       /\ \A t \in CallerIds :
             (window[t].preset /\ pc[t] = "W87" /\ pc'[t] # "W87") =>
                woke'[t] = "signal" /\ now' = now
       /\ (silence_event' # silence_event /\ silence_event' # NoHandle) =>
             /\ events[silence_event'] # "set"
             /\ events'[silence_event'] = "clear"]_vars

C15_Witness ==
    /\ nstarts = 2 /\ is_recording /\ Quiescent
    /\ events[1] = "set"
    /\ silence_event = 2 /\ events[2] = "clear"
    /\ window[1].preset = FALSE
    /\ \E i \in 1..Len(frames) : QuietChunk(frames[i])

\* C16: with serialized calls, in every state the session holding a stream
\* handle implies that it holds a silence signal that has been created, and
\* no stop_when_silent() has ended with SilenceDetectorUnavailable (nor
\* found the signal missing at its wait).
C16_DetectorAlwaysArmed ==
    /\ stream # NoHandle =>
          silence_event # NoHandle /\ events[silence_event] # "none"
    /\ \A t \in CallerIds :
          /\ res[t] # "SilenceDetectorUnavailable"
          /\ op[t] = "stop_when_silent" => res[t] # "AttributeError"

C16_Witness ==
    /\ pc[1] = "L87" /\ op[1] = "stop_when_silent"
    /\ nstarts = 2
    /\ stream # NoHandle /\ silence_event # NoHandle

\* C17: whenever startedAt and lastVoiceAt are both set, lastVoiceAt >=
\* startedAt; so at line 42 the 0.8 s gap condition implies the 0.5 s
\* duration condition, the signal is set only by a callback whose time is
\* at least 0.8 s after startedAt, and with no voiced chunk so far
\* (lastVoiceAt = startedAt) a quiet chunk processed 0.8 s or more after
\* start() goes on to set the signal.
C17_VoiceNotBeforeStart ==
    /\ [](/\ (start_time # None /\ last_voice_time # None) =>
                last_voice_time >= start_time
           /\ \A s \in StreamIds :
                 (/\ cbpc[s] = "L42"
                  /\ start_time # None /\ last_voice_time # None
                  /\ cbnow[s] - last_voice_time >= 8) =>
                    cbnow[s] - start_time >= 5)
    /\ [][\A s \in StreamIds :
             /\ (\E e \in EventIds : events[e] # "set" /\ events'[e] = "set"
                  /\ cbpc[s] # "idle" /\ cbpc'[s] = "idle") =>
                   cbnow[s] - start_time >= 8
             /\ (/\ cbpc[s] = "L42" /\ cbpc'[s] # "L42"
                 /\ start_time # None /\ last_voice_time = start_time
                 /\ cbnow[s] - start_time >= 8) =>
                   cbpc'[s] = "L43"]_vars

C17_Witness ==
    /\ is_recording
    /\ silence_event # NoHandle /\ events[silence_event] = "set"
    /\ last_voice_time = start_time
    /\ frames # <<>>
    /\ \A i \in 1..Len(frames) : QuietChunk(frames[i])
    /\ now - start_time >= 8

\* C18: however a callback interleaves with stop(), no callback ends with an
\* error; while a callback is under way the stream handle, the silence
\* signal and both timestamps are set and stop() has not got past line 67;
\* and no step appends a chunk, writes lastVoiceAt or sets a signal once
\* stop() has got past line 67, so a stopped session stays clean.
C18_CallbackNeverSeesStoppedSession ==
    /\ [](/\ \A s \in StreamIds :
                 /\ cberr[s] = "none"
                 /\ cbpc[s] # "idle" =>
                       /\ stream = s /\ silence_event # NoHandle
                       /\ start_time # None /\ last_voice_time # None
                       /\ \A t \in CallerIds : ~Clearing(t)
           /\ Stopped =>
                 /\ frames = <<>> /\ silence_event = NoHandle
                 /\ start_time = None /\ last_voice_time = None)
    /\ [][((\E t \in CallerIds : Clearing(t)) \/ Stopped) =>
             /\ Len(frames') <= Len(frames)
             /\ last_voice_time' \in {last_voice_time, None}
             /\ \A e \in EventIds :
                   events'[e] = "set" => events[e] = "set"]_vars

C18_Witness ==
    /\ pc[1] = "L67" /\ op[1] = "stop"
    /\ \E s \in StreamIds : cbpc[s] = "L42" /\ stream = s
====
